---- MODULE Spec2Model ----
(***************************************************************************)
(* Model of the CDM data-validation scripts of kainio/cdm-data:            *)
(*   validate-cdm-schema.js, validate-business-rules.js,                   *)
(*   validate-metadata.js and the report generator                         *)
(*   (generate-validation-report.js).                                      *)
(*                                                                         *)
(* Every script is a separate, single-threaded process.  The scripts share *)
(* nothing but the file system: the input files, the three validator logs, *)
(* the business-rules validation-cache directory and the report files.     *)
(***************************************************************************)
EXTENDS Integers, Sequences, FiniteSets, TLC

\* ------------------------------------------------------------------ bounds
MaxContactFiles == 2   \* top-level contact files of a modelled repository
MaxMetaFiles == 1      \* top-level metadata files of a modelled repository
MaxClock == 2          \* the clock runs over 0..MaxClock

\* ------------------------------------------------------------------- paths
\* A path is a sequence of segments.  path.join concatenates its arguments,
\* whether or not the second one is already absolute.
Join(a, b) == a \o b

Parent(p) == SubSeq(p, 1, Len(p) - 1)

Basename(p) == p[Len(p)]

\* __dirname of every script, and path.resolve(__dirname, '..').
Dirname == <<"repo", ".gitea", "scripts">>

RepoRoot == Parent(Dirname)

ContactsRel == <<"data", "contacts">>

MetadataRel == <<"metadata", "submissions">>

CacheRel == <<"validation-cache">>

\* A file name that holds the success phrase of the logs.
PhraseName == "validation checks passed!.json"

\* Directory-listing order of fs.readdirSync: a fixed order on entry names.
NameOrder ==
  <<"a.json", "b.json", "c.json", "m.json", "n.json", "notes.txt", "sub", PhraseName>>

Rank(name) == CHOOSE i \in 1..Len(NameOrder) : NameOrder[i] = name

\* name.endsWith('.json')
EndsWithJson(name) ==
  name \in {"a.json", "b.json", "c.json", "m.json", "n.json", "undefined.json", PhraseName}

IsPrefix(p, q) == Len(p) <= Len(q) /\ SubSeq(q, 1, Len(p)) = p

\* ----------------------------------------------------------------- strings
\* Strings the scripts take apart are sequences of characters.
UpperChars == {"A", "B", "D", "J", "T"}

LowerChars == {"a", "b", "c", "d", "e", "h", "j", "m", "n", "o", "s", "t", "x"}

DigitChars == {"1", "5"}

Lower(c) ==
  CASE c = "A" -> "a" [] c = "B" -> "b" [] c = "D" -> "d" [] c = "J" -> "j" [] c = "T" -> "t"
    [] OTHER -> c

\* A conversion that leaves upper-case letters as they are.
keepCase(s) == s

\* String.prototype.toLowerCase
toLowerCase(s) == [i \in 1..Len(s) |-> Lower(s[i])]

\* String.prototype.includes
includes(s, sub) == \E i \in 0..(Len(s) - Len(sub)) : SubSeq(s, i + 1, i + Len(sub)) = sub

\* emailAddress.replace(/[^a-zA-Z0-9]/g, "_")
ReplaceNonAlnum(s) ==
  [i \in 1..Len(s) |-> IF s[i] \in UpperChars \cup LowerChars \cup DigitChars THEN s[i] ELSE "_"]

\* s.split("@")[1]: the text between the first and the second "@";
\* <<"undefined">> when s has no "@".
RECURSIVE UpToAt(_)
UpToAt(s) == IF s = <<>> \/ Head(s) = "@" THEN <<>> ELSE <<Head(s)>> \o UpToAt(Tail(s))

SplitAtSecond(s) ==
  IF "@" \notin {s[i] : i \in 1..Len(s)} THEN <<"undefined">>
  ELSE LET k == CHOOSE i \in 1..Len(s) : s[i] = "@" /\ \A j \in 1..(i - 1) : s[j] # "@"
       IN UpToAt(SubSeq(s, k + 1, Len(s)))

\* ------------------------------------------------------------- JSON values
\* A JSON value as the scripts see it: a string (a sequence of characters, or
\* of longer chunks where no script looks inside), a number, or undefined (the
\* property is missing).
Undef == [t |-> "undefined", s |-> <<>>]

Str(chars) == [t |-> "string", s |-> chars]

Num(digits) == [t |-> "number", s |-> digits]

NumV == Num(<<"5">>)

\* JavaScript truthiness: a non-empty string or a non-zero number.
Truthy(v) == (v.t = "string" /\ v.s # <<>>) \/ (v.t = "number" /\ v.s # <<"0">>)

IsString(v) == v.t = "string"

\* Timestamps: the clock counts milliseconds since the epoch, and
\* IsoTokens[t + 1] is Date(t).toISOString().
IsoTokens == <<"1970-01-01T00:00:00.000Z", "1970-01-01T00:00:00.001Z",
               "1970-01-01T00:00:00.002Z", "1970-01-01T00:00:00.003Z",
               "1970-01-01T00:00:00.004Z", "1970-01-01T00:00:00.005Z">>

Iso(t) == <<IsoTokens[t + 1]>>

IsoTimes == 0..(Len(IsoTokens) - 1)

\* new Date(string).getTime(): the time value, meaningful only when the
\* string is a date (see IsNaNDate).  "1970-01-01" is a date the parser
\* accepts but toISOString does not give back.
DateOf(s) ==
  IF \E t \in IsoTimes : s = Iso(t) THEN CHOOSE t \in IsoTimes : s = Iso(t) ELSE 0

\* isNaN(new Date(string).getTime())
IsNaNDate(s) == s # <<"1970-01-01">> /\ \A t \in IsoTimes : s # Iso(t)

\* date.toISOString() === dateString inside try/catch: toISOString throws a
\* RangeError on an invalid date, which the catch turns into false.
isValidISODate(s) == \E t \in IsoTimes : s = Iso(t)

\* ---------------------------------------------------------- contact records
ContactFields == {"contactId", "fullName", "emailAddress", "phoneNumber", "company",
                  "city", "stateProvince", "country", "jobTitle", "notes", "tags",
                  "createdOn", "modifiedOn"}

\* A parsed contact file: json is "ok" or "malformed" (JSON.parse throws a
\* SyntaxError); unknown tells whether the object has a key outside the schema.
EmptyContact ==
  [json |-> "ok", unknown |-> FALSE,
   contactId |-> Undef, fullName |-> Undef, emailAddress |-> Undef, phoneNumber |-> Undef,
   company |-> Undef, city |-> Undef, stateProvince |-> Undef, country |-> Undef,
   jobTitle |-> Undef, notes |-> Undef, tags |-> <<>>, createdOn |-> Undef,
   modifiedOn |-> Undef]

MalformedJson == [EmptyContact EXCEPT !.json = "malformed"]

JohnEmail == <<"j", "d", "@", "x", ".", "c", "o">>

\* validContact of test-validation.js (with a short e-mail address).
ValidContact ==
  [EmptyContact EXCEPT
     !.contactId = Str(<<"123e4567-e89b-12d3-a456-426614174000">>),
     !.fullName = Str(<<"J", "o", "h", "n", " ", "D", "o", "e">>),
     !.emailAddress = Str(JohnEmail),
     !.phoneNumber = Str(<<"+1-555-123-4567">>),
     !.company = Str(<<"Tech Corp">>),
     !.jobTitle = Str(<<"Developer">>),
     !.country = Str(<<"US">>),
     !.stateProvince = Str(<<"CA">>),
     !.city = Str(<<"San Francisco">>),
     !.createdOn = Str(Iso(0)),
     !.modifiedOn = Str(Iso(0))]

\* A second valid contact, with another address.
OtherContact ==
  [ValidContact EXCEPT
     !.contactId = Str(<<"223e4567-e89b-12d3-a456-426614174000">>),
     !.fullName = Str(<<"A", "n", "n", " ", "D", "e", "e">>),
     !.emailAddress = Str(<<"a", "d", "@", "x", ".", "c", "o">>)]

\* invalidContact of test-validation.js.
InvalidContact ==
  [EmptyContact EXCEPT
     !.contactId = Str(<<"invalid-uuid">>),
     !.fullName = Str(<<>>),
     !.emailAddress = Str(<<"b", "a", "d", "-", "e", "m">>),
     !.phoneNumber = Str(<<"123">>),
     !.country = Str(<<"XX">>),
     !.jobTitle = Str(<<"Manager">>),
     !.createdOn = Str(<<"invalid-date">>),
     !.modifiedOn = Str(Iso(0))]

\* {"fullName": 5, "emailAddress": "jd@x.co"}: well-formed JSON whose fullName
\* is a number.
NumericNameContact == [EmptyContact EXCEPT !.fullName = NumV, !.emailAddress = Str(JohnEmail)]

\* validContact without its contactId (an optional field).
NoIdContact == [ValidContact EXCEPT !.contactId = Undef]

\* validContact with an upper-case letter in its address.
UpperEmailContact ==
  [ValidContact EXCEPT !.emailAddress = Str(<<"J", "d", "@", "x", ".", "c", "o">>)]

\* invalidContact with an upper-case letter in its address.
UpperInvalidContact ==
  [InvalidContact EXCEPT !.emailAddress = Str(<<"B", "a", "d", "-", "e", "m">>)]

\* Two valid contacts whose addresses differ in one character that is not
\* a letter or a digit: j.d@x.co and j_d@x.co.
DotEmailContact ==
  [ValidContact EXCEPT !.emailAddress = Str(<<"j", ".", "d", "@", "x", ".", "c", "o">>)]

UnderscoreEmailContact ==
  [OtherContact EXCEPT !.emailAddress = Str(<<"j", "_", "d", "@", "x", ".", "c", "o">>)]

\* The contact files of the model, by the name of their content.
ContactContents == {"valid", "other", "invalid", "malformed", "numericName"}

\* The contact records the validators are applied to one at a time.
ContactRecords == ContactContents \cup {"noId", "upperEmail", "upperInvalid"}

\* -------------------------------------------------- validate-cdm-schema.js
\* Joi's string().email(): one "@", a non-empty local part and a domain of at
\* least two dot-separated, non-empty segments.
IsEmailSyntax(s) ==
  /\ Cardinality({i \in 1..Len(s) : s[i] = "@"}) = 1
  /\ LET k == CHOOSE i \in 1..Len(s) : s[i] = "@"
         dom == SubSeq(s, k + 1, Len(s))
     IN /\ k > 1
        /\ Len(dom) >= 3
        /\ dom[1] # "." /\ dom[Len(dom)] # "."
        /\ \E i \in 2..(Len(dom) - 1) : dom[i] = "."
        /\ \A i \in 1..(Len(dom) - 1) : ~(dom[i] = "." /\ dom[i + 1] = ".")
        /\ \A i \in 1..Len(s) : s[i] # " "

\* /^[\+]?[0-9\s\-\(\)]+$/ on the phone numbers of the model.
MatchesLoosePhone(s) == s \in {<<"+1-555-123-4567">>, <<"123">>}

\* Joi.string().max(n).optional().allow(null, ""): missing, or a string of at
\* most n characters.
OptionalString(v, n) == v.t = "undefined" \/ (v.t = "string" /\ Len(v.s) <= n)

\* The paths of the keys cdmContactSchema.validate(data, {abortEarly: false,
\* allowUnknown: false}) rejects.  A missing contactId runs the default
\* () => uuidv4(), and uuidv4 is not defined in the script: the default method
\* throws and Joi reports it as an error of contactId.
SchemaErrors(data) ==
  LET Key(name, bad) == IF bad THEN {name} ELSE {}
  IN  Key("contactId", data.contactId.t = "undefined" \/ ~IsString(data.contactId)
                       \/ data.contactId.s = <<>>)
   \cup Key("fullName", ~IsString(data.fullName) \/ Len(data.fullName.s) < 1
                        \/ Len(data.fullName.s) > 255)
   \cup Key("emailAddress", ~IsString(data.emailAddress) \/ ~IsEmailSyntax(data.emailAddress.s))
   \cup Key("phoneNumber", data.phoneNumber.t = "number"
                           \/ (IsString(data.phoneNumber) /\ data.phoneNumber.s # <<>>
                               /\ ~MatchesLoosePhone(data.phoneNumber.s)))
   \cup {f \in {"company", "jobTitle", "createdOn", "modifiedOn"} : ~OptionalString(data[f], 255)}
   \cup {f \in {"city", "stateProvince", "country"} : ~OptionalString(data[f], 100)}
   \cup {f \in {"notes"} : ~OptionalString(data[f], 1000)}
   \cup Key("tags", \E i \in 1..Len(data.tags) : ~IsString(data.tags[i]))
   \cup Key("unknown", data.unknown)

\* /^[0-9a-f]{8}-[0-9a-f]{4}-[1-5][0-9a-f]{3}-[89ab][0-9a-f]{3}-[0-9a-f]{12}$/i
\* on the identifiers of the model.
isValidUUID(uuid) ==
  uuid \in {<<"123e4567-e89b-12d3-a456-426614174000">>, <<"223e4567-e89b-12d3-a456-426614174000">>}

\* modified < created on two Date objects: false when either is NaN.
DateBefore(a, b) == ~IsNaNDate(a) /\ ~IsNaNDate(b) /\ DateOf(a) < DateOf(b)

\* The CDM rules that fail, in the order of the code.
CDMViolations(contact) ==
  LET r1 == Truthy(contact.contactId) /\ ~isValidUUID(contact.contactId.s)
      r2 == Truthy(contact.emailAddress)
            /\ contact.emailAddress.s # toLowerCase(contact.emailAddress.s)
      r3a == Truthy(contact.createdOn) /\ ~isValidISODate(contact.createdOn.s)
      r3b == Truthy(contact.modifiedOn) /\ ~isValidISODate(contact.modifiedOn.s)
      r4 == Truthy(contact.createdOn) /\ Truthy(contact.modifiedOn)
            /\ DateBefore(contact.modifiedOn.s, contact.createdOn.s)
  IN  (IF r1 THEN <<"contactId must be valid UUID format">> ELSE <<>>)
   \o (IF r2 THEN <<"emailAddress must be lowercase">> ELSE <<>>)
   \o (IF r3a THEN <<"createdOn must be valid ISO date">> ELSE <<>>)
   \o (IF r3b THEN <<"modifiedOn must be valid ISO date">> ELSE <<>>)
   \o (IF r4 THEN <<"modifiedOn cannot be before createdOn">> ELSE <<>>)

validateCDMCompliance(contact) == CDMViolations(contact) = <<>>

\* validateFile of validate-cdm-schema.js on the content of one file.
SchemaValidateFile(data) ==
  IF data.json = "malformed" THEN FALSE
  ELSE IF SchemaErrors(data) # {} THEN FALSE
  ELSE validateCDMCompliance(data)

\* ---------------------------------------------- validate-business-rules.js
\* BUSINESS_RULES.blockedEmailDomains.includes(domain), the domains spelt out.
blockedEmailDomains ==
  {<<"t", "e", "m", "p", "m", "a", "i", "l", ".", "c", "o", "m">>,
   <<"1", "0", "m", "i", "n", "u", "t", "e", "m", "a", "i", "l", ".", "c", "o", "m">>,
   <<"t", "h", "r", "o", "w", "a", "w", "a", "y", ".", "e", "m", "a", "i", "l">>,
   <<"g", "u", "e", "r", "r", "i", "l", "l", "a", "m", "a", "i", "l", ".", "c", "o", "m">>,
   <<"m", "a", "i", "l", "i", "n", "a", "t", "o", "r", ".", "c", "o", "m">>,
   <<"y", "o", "p", "m", "a", "i", "l", ".", "c", "o", "m">>}

allowedCountries ==
  {<<"US">>, <<"CA">>, <<"UK">>, <<"FR">>, <<"DE">>, <<"AU">>, <<"JP">>, <<"MA">>}

\* The countries BUSINESS_RULES.phoneNumberPatterns has a pattern for.
PatternCountries == {<<"US">>, <<"CA">>, <<"UK">>, <<"FR">>, <<"DE">>, <<"MA">>}

\* phoneNumberPatterns[country].test(phone) on the phone numbers of the model.
MatchesCountryPhone(country, phone) ==
  country \in {<<"US">>, <<"CA">>} /\ phone = <<"+1-555-123-4567">>

\* fullName.trim().split(/\s+/).length: the number of words, and 1 for a
\* string without any.
NameParts(s) ==
  LET starts == {i \in 1..Len(s) : s[i] # " " /\ (i = 1 \/ s[i - 1] = " ")}
  IN IF starts = {} THEN 1 ELSE Cardinality(starts)

validTags == {<<"customer">>, <<"prospect">>, <<"partner">>, <<"vendor">>, <<"employee">>,
              <<"consultant">>}

\* tag.length > 20 on the tags of the model.
LongTag(s) == s \in {<<"a-tag-of-more-than-twenty-characters">>}

\* The five sensitivePatterns on the notes of the model.
SensitiveNotes(s) == s \in {<<"SSN 123-45-6789">>, <<"the password is hunter2">>}

TestWord == <<"t", "e", "s", "t">>

\* A rule of validateBusinessRules before rule 10 hits a TypeError: a method
\* of String is called on a value that is not a string (rules 1, 6, 7, 8).
RuleThrows(contact) ==
  \/ Truthy(contact.emailAddress) /\ ~IsString(contact.emailAddress)
  \/ Truthy(contact.fullName) /\ ~IsString(contact.fullName)
  \/ Truthy(contact.emailAddress) /\ Truthy(contact.company) /\ ~IsString(contact.company)
  \/ \E i \in 1..Len(contact.tags) : ~IsString(contact.tags[i])

\* The violations of rules 1 to 9, in the order of the code (rule 7 only logs).
RuleViolations(contact) ==
  LET email == contact.emailAddress
      domain == toLowerCase(SplitAtSecond(email.s))
      r1 == Truthy(email) /\ domain \in blockedEmailDomains
      r2 == Truthy(contact.phoneNumber) /\ Truthy(contact.country)
            /\ contact.country.s \in PatternCountries
            /\ ~MatchesCountryPhone(contact.country.s, contact.phoneNumber.s)
      r3 == Truthy(contact.jobTitle) /\ ~Truthy(contact.company)
      r4 == contact.country = Str(<<"US">>) /\ Truthy(contact.city)
            /\ ~Truthy(contact.stateProvince)
      r5 == Truthy(contact.country) /\ contact.country.s \notin allowedCountries
      r6a == Truthy(contact.fullName)
             /\ includes(toLowerCase(contact.fullName.s), TestWord)
             /\ ~(email.t = "string" /\ includes(email.s, TestWord))
      r6b == Truthy(contact.fullName) /\ NameParts(contact.fullName.s) < 2
      r8 == \E i \in 1..Len(contact.tags) :
              contact.tags[i].s \notin validTags /\ LongTag(contact.tags[i].s)
      r9 == Truthy(contact.notes) /\ SensitiveNotes(contact.notes.s)
  IN  (IF r1 THEN <<"Blocked email domain">> ELSE <<>>)
   \o (IF r2 THEN <<"Invalid phone format">> ELSE <<>>)
   \o (IF r3 THEN <<"Job title requires company name">> ELSE <<>>)
   \o (IF r4 THEN <<"US contacts with city must specify state/province">> ELSE <<>>)
   \o (IF r5 THEN <<"Country not in allowed list">> ELSE <<>>)
   \o (IF r6a THEN <<"Potential test data detected">> ELSE <<>>)
   \o (IF r6b THEN <<"Full name should include both first and last name">> ELSE <<>>)
   \o (IF r8 THEN <<"Invalid or overly long tags">> ELSE <<>>)
   \o (IF r9 THEN <<"Notes field contains potentially sensitive information">> ELSE <<>>)

\* The validation-cache directory, relative to the working directory: dir
\* tells whether it exists, flags holds every marker file with its content.
NoCache == [dir |-> FALSE, flags |-> {}]

\* The marker of an address: `${emailAddress.replace(/[^a-zA-Z0-9]/g, "_")}.flag`.
MarkerOf(email) == ReplaceNonAlnum(email)

HasMarker(c, marker) == c.dir /\ \E f \in c.flags : f.marker = marker

DuplicateViolation == "Duplicate email address detected"

\* Rule 10 on a cache: the violation if the marker exists; else mkdirSync and
\* writeFileSync(emailFile, filePath).
Rule10(contact, filePath, c) ==
  IF ~Truthy(contact.emailAddress) THEN [violations |-> <<>>, cache |-> c]
  ELSE IF HasMarker(c, MarkerOf(contact.emailAddress.s))
       THEN [violations |-> <<DuplicateViolation>>, cache |-> c]
       ELSE [violations |-> <<>>,
             cache |-> [dir |-> TRUE,
                        flags |-> c.flags \cup {[marker |-> MarkerOf(contact.emailAddress.s),
                                                   content |-> filePath]}]]

\* validateBusinessRules(contact, filePath) run on cache c: threw tells that
\* a rule raised a TypeError (nothing is returned then, and rule 10 was not
\* reached).
validateBusinessRules(contact, filePath, c) ==
  IF RuleThrows(contact)
  THEN [threw |-> TRUE, isValid |-> FALSE, violations |-> <<>>, cache |-> c]
  ELSE LET r10 == Rule10(contact, filePath, c)
           violations == RuleViolations(contact) \o r10.violations
       IN [threw |-> FALSE, isValid |-> violations = <<>>, violations |-> violations,
           cache |-> r10.cache]

\* validateFile of validate-business-rules.js: the verdict, the cache it
\* leaves and whether the duplicate violation was raised.
BusinessValidateFile(data, filePath, c) ==
  IF data.json = "malformed" THEN [valid |-> FALSE, cache |-> c, duplicate |-> FALSE]
  ELSE LET r == validateBusinessRules(data, filePath, c)
       IN [valid |-> ~r.threw /\ r.isValid, cache |-> r.cache,
           duplicate |-> \E i \in 1..Len(r.violations) : r.violations[i] = DuplicateViolation]

\* A cleanup that removes nothing.
cleanupNothing(c) == c

\* cleanup(): remove validation-cache if it exists.
cleanup(c) == NoCache

\* ------------------------------------------------------ the file system
\* The files and directories under a path, as fs sees them: D is the set of
\* directories, F maps every regular file to its content.
existsSync(D, F, p) == p \in D \/ p \in DOMAIN F

\* The names fs.readdirSync(dir) returns, in directory-listing order.
RECURSIVE SortNames(_)
SortNames(S) ==
  IF S = {} THEN <<>>
  ELSE LET first == CHOOSE n \in S : \A m \in S : Rank(n) <= Rank(m)
       IN <<first>> \o SortNames(S \ {first})

readdirSync(D, F, dir) ==
  SortNames({Basename(p) : p \in {q \in D \cup DOMAIN F : Len(q) > 0 /\ Parent(q) = dir}})

\* findDataFiles(dir) of the three validators (findMetadataFiles in
\* validate-metadata.js).  dir is joined to the repository root on every
\* call, the recursive ones included, where dir is already the full path.
RECURSIVE findDataFiles(_, _, _)
RECURSIVE WalkItems(_, _, _, _)
WalkItems(D, F, fullDir, items) ==
  IF items = <<>> THEN <<>>
  ELSE LET fullPath == Join(fullDir, <<Head(items)>>)
           here == IF fullPath \in D THEN findDataFiles(D, F, fullPath)
                   ELSE IF EndsWithJson(Head(items)) THEN <<fullPath>>
                   ELSE <<>>
       IN here \o WalkItems(D, F, fullDir, Tail(items))

findDataFiles(D, F, dir) ==
  LET fullDir == Join(RepoRoot, dir)
  IN IF ~existsSync(D, F, fullDir) THEN <<>>
     ELSE WalkItems(D, F, fullDir, readdirSync(D, F, fullDir))

\* ------------------------------------------------------ validate-metadata.js
EmptyMetadata ==
  [json |-> "ok", submissionId |-> Undef, processedAt |-> Undef, gitBranch |-> Undef,
   gitCommitMessage |-> Undef, version |-> Undef, namespace |-> Undef,
   recordCount |-> Undef, contactId |-> Undef]

MalformedMetadata == [EmptyMetadata EXCEPT !.json = "malformed"]

\* A metadata record that names the contact file a.json, processed at time t.
MetadataAt(t) ==
  [EmptyMetadata EXCEPT
     !.submissionId = Str(<<"1700000000000-abcd12345">>),
     !.processedAt = Str(Iso(t)),
     !.gitBranch = Str(<<"contact-12345678-2024-01-01t12-00-00-000z">>),
     !.gitCommitMessage = Str(<<"Add contact: John Doe">>),
     !.version = Str(<<"1.0">>),
     !.namespace = Str(<<"com.example.cdm">>),
     !.recordCount = Num(<<"1">>),
     !.contactId = Str(<<"a">>)]

\* invalidMetadata of test-validation.js.
InvalidMetadata ==
  [EmptyMetadata EXCEPT
     !.submissionId = Str(<<"invalid-format">>),
     !.processedAt = Str(<<"invalid-date">>),
     !.gitBranch = Str(<<"invalid branch name">>)]

\* validMetadata of test-validation.js: it has no contactId.
HarnessMetadata == [MetadataAt(0) EXCEPT !.contactId = Undef]

\* A record whose only fault is the missing commit message.
NoMessageMetadata == [MetadataAt(0) EXCEPT !.gitCommitMessage = Undef]

\* The metadata files of the model, by the name of their content.
MetadataContents == {"at0", "at1", "invalidMetadata", "malformedMetadata"}

\* The metadata records the validator is applied to one at a time.
MetadataRecords == MetadataContents \cup {"at2", "harnessValid", "noMessage"}

\* JSON.parse(fs.readFileSync(filePath, 'utf8')) on the files of the model.
ParseFile(content) ==
  CASE content = "valid" -> ValidContact
    [] content = "other" -> OtherContact
    [] content = "invalid" -> InvalidContact
    [] content = "malformed" -> MalformedJson
    [] content = "numericName" -> NumericNameContact
    [] content = "noId" -> NoIdContact
    [] content = "upperEmail" -> UpperEmailContact
    [] content = "upperInvalid" -> UpperInvalidContact
    [] content = "dotEmail" -> DotEmailContact
    [] content = "underscoreEmail" -> UnderscoreEmailContact
    [] content = "at0" -> MetadataAt(0)
    [] content = "at1" -> MetadataAt(1)
    [] content = "at2" -> MetadataAt(2)
    [] content = "harnessValid" -> HarnessMetadata
    [] content = "noMessage" -> NoMessageMetadata
    [] content = "invalidMetadata" -> InvalidMetadata
    [] content = "malformedMetadata" -> MalformedMetadata

\* The regular expressions of validateMetadata on the values of the model.
MatchesSubmissionId(s) == s = <<"1700000000000-abcd12345">>

MatchesBranch(s) == s = <<"contact-12345678-2024-01-01t12-00-00-000z">>

MatchesVersion(s) == s = <<"1.0">>

MatchesNamespace(s) == s = <<"com.example.cdm">>

\* Number.isInteger(recordCount) && recordCount >= 0
IsCount(v) == v.t = "number" /\ v.s \in {<<"0">>, <<"1">>, <<"5">>}

\* `${metadata.contactId}.json`
ContactFileName(v) ==
  CASE v.t = "undefined" -> "undefined.json"
    [] v.s = <<"a">> -> "a.json"
    [] v.s = <<"b">> -> "b.json"
    [] v.s = <<"c">> -> "c.json"
    [] OTHER -> "missing.json"

RequiredMetadataFields == <<"submissionId", "processedAt", "gitBranch", "gitCommitMessage">>

FutureViolation == "processedAt timestamp cannot be in the future"

\* validateMetadata(metadata, filePath) at clock reading now: the violations,
\* in the order of the code.
MetadataViolations(metadata, D, F, now) ==
  LET Missing(i) == IF ~Truthy(metadata[RequiredMetadataFields[i]])
                    THEN <<"Missing required metadata field">> ELSE <<>>
      at == metadata.processedAt
      badId == Truthy(metadata.submissionId) /\ ~MatchesSubmissionId(metadata.submissionId.s)
      badDate == Truthy(at) /\ (IsNaNDate(at.s) \/ ~isValidISODate(at.s))
      future == Truthy(at) /\ ~IsNaNDate(at.s) /\ DateOf(at.s) > now
      badBranch == Truthy(metadata.gitBranch) /\ ~MatchesBranch(metadata.gitBranch.s)
      badVersion == Truthy(metadata.version) /\ ~MatchesVersion(metadata.version.s)
      badNamespace == Truthy(metadata.namespace) /\ ~MatchesNamespace(metadata.namespace.s)
      badCount == metadata.recordCount.t # "undefined" /\ ~IsCount(metadata.recordCount)
      expectedDataFile == Join(Join(RepoRoot, ContactsRel),
                               <<ContactFileName(metadata.contactId)>>)
      noFile == Truthy(metadata.submissionId) /\ ~existsSync(D, F, expectedDataFile)
  IN  Missing(1) \o Missing(2) \o Missing(3) \o Missing(4)
   \o (IF badId THEN <<"Invalid submissionId format">> ELSE <<>>)
   \o (IF badDate THEN <<"Invalid processedAt timestamp">> ELSE <<>>)
   \o (IF future THEN <<FutureViolation>> ELSE <<>>)
   \o (IF badBranch THEN <<"Git branch does not follow naming convention">> ELSE <<>>)
   \o (IF badVersion THEN <<"Invalid CDM schema version format">> ELSE <<>>)
   \o (IF badNamespace THEN <<"Invalid CDM namespace format">> ELSE <<>>)
   \o (IF badCount THEN <<"Invalid recordCount">> ELSE <<>>)
   \o (IF noFile THEN <<"Referenced data file not found">> ELSE <<>>)

\* A validateMetadata with the age check enabled: a processedAt more than one
\* clock unit before now is a violation.
validateMetadataWithMaxAge(metadata, D, F, now) ==
  LET at == metadata.processedAt
      tooOld == Truthy(at) /\ ~IsNaNDate(at.s) /\ now - DateOf(at.s) > 1
      violations == MetadataViolations(metadata, D, F, now)
                    \o (IF tooOld THEN <<"processedAt timestamp is too old">> ELSE <<>>)
  IN [isValid |-> violations = <<>>, violations |-> violations]

\* A validateMetadata that stops at the first violation.
validateMetadataFirstOnly(metadata, D, F, now) ==
  LET violations == MetadataViolations(metadata, D, F, now)
  IN [isValid |-> violations = <<>>,
      violations |-> IF violations = <<>> THEN <<>> ELSE <<Head(violations)>>]

validateMetadata(metadata, D, F, now) ==
  LET violations == MetadataViolations(metadata, D, F, now)
  IN [isValid |-> violations = <<>>, violations |-> violations]

\* validateFile of validate-metadata.js on the content of one file.
MetadataValidateFile(data, D, F, now) ==
  IF data.json = "malformed" THEN FALSE ELSE validateMetadata(data, D, F, now).isValid

\* ------------------------------------------------------------ the log files
Validators == {"cdmSchema", "businessRules", "metadata"}

LogName(v) ==
  CASE v = "cdmSchema" -> "cdm-validation.log"
    [] v = "businessRules" -> "business-rules-validation.log"
    [] v = "metadata" -> "metadata-validation.log"

\* The directory main() of a validator hands to file discovery.
InputDir(v) == IF v = "metadata" THEN MetadataRel ELSE ContactsRel

\* A log is a sequence of lines; a line is its fixed text, with the number
\* or the file path the script puts into it.
Line(text) == [text |-> text, n |-> 0, path |-> <<>>]

CountLine(text, n) == [text |-> text, n |-> n, path |-> <<>>]

\* The failure line of a file: a cross mark (written [x] here), the kind of
\* failure and the path of the file.  In validate-business-rules.js the mark
\* is stored as other characters (written [?] here), not as the cross mark.
DetailText(v) ==
  CASE v = "cdmSchema" -> "[x] Invalid: "
    [] v = "businessRules" -> "[?] Rule violation: "
    [] v = "metadata" -> "[x] Invalid metadata: "

DetailTexts == {DetailText(v) : v \in Validators}

DetailLine(v, file) == [text |-> DetailText(v), n |-> 0, path |-> file]

NoFilesText(v) ==
  IF v = "metadata" THEN "No metadata files found to validate"
  ELSE "No contact data files found to validate"

TitleText(v) ==
  CASE v = "cdmSchema" -> "CDM Schema Validation Results"
    [] v = "businessRules" -> "Business Rules Validation Results"
    [] v = "metadata" -> "Metadata Validation Results"

PassedText == "All validation checks passed!"

FailedText == "validation failed!"

\* The log main() writes when it found no file.
NoFilesLog(v) == <<Line(NoFilesText(v))>>

\* A log whose Details section is written even when no file failed.
ResultLogAlwaysDetails(v, total, validCount, errorLines, allValid) ==
     <<Line(TitleText(v)), Line("===="),
       CountLine("Total files: ", total),
       CountLine("Valid files: ", validCount),
       CountLine("Invalid files: ", total - validCount)>>
  \o <<Line(""), Line("Details:")>> \o errorLines
  \o <<Line(""), Line(IF allValid THEN PassedText ELSE FailedText)>>

\* The log main() builds after the loop.
ResultLog(v, total, validCount, errorLines, allValid) ==
     <<Line(TitleText(v)), Line("===="),
       CountLine("Total files: ", total),
       CountLine("Valid files: ", validCount),
       CountLine("Invalid files: ", total - validCount)>>
  \o (IF Len(errorLines) > 0 THEN <<Line(""), Line("Details:")>> \o errorLines ELSE <<>>)
  \o <<Line(""), Line(IF allValid THEN PassedText ELSE FailedText)>>

\* ------------------------------------------- generate-validation-report.js
\* text.includes(phrase), for the fixed texts of the logs and the phrases the
\* report generator looks for.
TextIncludes(text, phrase) ==
  CASE phrase = "validation checks passed!" -> text = PassedText
    [] phrase = "validation failed!" -> text = FailedText
    [] phrase = "[x]" -> text \in {DetailText("cdmSchema"), DetailText("metadata")}
    [] phrase = "Error:" -> FALSE
    [] phrase = "violation" -> text = DetailText("businessRules")
    [] phrase = "Total files:" -> text = "Total files: "
    [] phrase = "Valid files:" -> text = "Valid files: "
    [] phrase = "Invalid files:" -> text = "Invalid files: "

\* name.includes(phrase), for the entry names of the worlds: one name holds
\* the success phrase, no other name holds a phrase.
NameIncludes(name, phrase) == name = PhraseName /\ phrase = "validation checks passed!"

\* line.includes(phrase): a line is its fixed text followed by the path of
\* the file it reports, and the phrase can lie in either.
LineIncludes(line, phrase) ==
  \/ TextIncludes(line.text, phrase)
  \/ \E i \in 1..Len(line.path) : NameIncludes(line.path[i], phrase)

\* content.includes(phrase)
ContentIncludes(content, phrase) == \E i \in 1..Len(content) : LineIncludes(content[i], phrase)

RECURSIVE FilterLines(_, _)
FilterLines(lines, phrases) ==
  IF lines = <<>> THEN <<>>
  ELSE (IF \E ph \in phrases : LineIncludes(Head(lines), ph) THEN <<Head(lines)>> ELSE <<>>)
       \o FilterLines(Tail(lines), phrases)

UnknownResult == [status |-> "unknown", details |-> <<>>, summary |-> <<>>]

parseValidationOutput(content) ==
  [status |-> IF ContentIncludes(content, "validation checks passed!") THEN "passed"
              ELSE IF ContentIncludes(content, "validation failed!") THEN "failed"
              ELSE "unknown",
   details |-> FilterLines(content, {"[x]", "Error:", "violation"}),
   summary |-> FilterLines(content, {"Total files:", "Valid files:", "Invalid files:"})]

\* The number of names of readdirSync(dir) that end with .json.
CountJsonNames(D, F, dir) ==
  Cardinality({i \in 1..Len(readdirSync(D, F, dir)) : EndsWithJson(readdirSync(D, F, dir)[i])})

\* countFiles(): the contacts directory is looked for at the repository root
\* joined with its own full path.
countFiles(D, F) ==
  LET contactsDir == Join(RepoRoot, ContactsRel)
      metadataDir == Join(RepoRoot, MetadataRel)
      contacts == IF existsSync(D, F, Join(RepoRoot, contactsDir))
                  THEN CountJsonNames(D, F, contactsDir) ELSE 0
      metadata == IF existsSync(D, F, metadataDir)
                  THEN CountJsonNames(D, F, metadataDir) ELSE 0
  IN [total |-> contacts + metadata, contacts |-> contacts, metadata |-> metadata]

\* reportData.validationResults after the loop of generateReport(): L maps
\* the paths of the log files on disk to their content.
ValidationResults(D, F, L) ==
  [k \in Validators \cup {"fileCount"} |->
     IF k = "fileCount" THEN countFiles(D, F)
     ELSE IF Join(RepoRoot, <<LogName(k)>>) \in DOMAIN L
          THEN parseValidationOutput(L[Join(RepoRoot, <<LogName(k)>>)])
          ELSE UnknownResult]

\* A variant of allPassed that only asks that no status is failed.
MarkdownNoneFailed(vr) ==
  \A k \in DOMAIN vr : ("status" \in DOMAIN vr[k]) => vr[k].status # "failed"

\* allPassed of generateMarkdownReport: every value of validationResults that
\* has a status has the status passed.
MarkdownAllPassed(vr) ==
  \A k \in DOMAIN vr : ("status" \in DOMAIN vr[k]) => vr[k].status = "passed"

\* allPassed of main().
MainAllPassed(vr) == \A type \in Validators : vr[type].status = "passed"

\* An exit code that reports success on failure and failure on success.
ExitCodeSwapped(ok) == IF ok THEN 1 ELSE 0

\* process.exit(0) or process.exit(1)
ExitCode(ok) == IF ok THEN 0 ELSE 1

\* ------------------------------------------------------------------- state
VARIABLES
  dirs,     \* the directories of the repository checkout
  files,    \* the contact and metadata files: path |-> content
  cwd,      \* the working directory the scripts are started in
  now,      \* the latest reading of the clock (new Date())
  logs,     \* the validator log files on disk: path |-> content
  cache,    \* the validation-cache directory under cwd
  proc,     \* the validator process that is running, if any
  last,     \* per validator, the outcome of its last finished run
  wrote,    \* per validator, whether it wrote its log in the current execution
  report    \* the last run of the report generator: the logs it read (<<>>
            \* for a missing one), what it wrote, and its exit code

vars == <<dirs, files, cwd, now, logs, cache, proc, last, wrote, report>>

Idle == [script |-> "none"]

NoRun == [ran |-> FALSE]

NoReport == [exists |-> FALSE]

\* ------------------------------------------------------------------- worlds
ContactNames == <<"a.json", "b.json", "c.json">>

MetadataNames == <<"m.json", "n.json">>

TopContacts == {ContactNames[i] : i \in 1..MaxContactFiles}

TopMetadata == {MetadataNames[i] : i \in 1..MaxMetaFiles}

ContactsDir == Join(RepoRoot, ContactsRel)

MetadataDir == Join(RepoRoot, MetadataRel)

\* Every directory on the way to p, and p.
Ancestors(p) == {SubSeq(p, 1, k) : k \in 1..Len(p)}

\* The files of one input directory: top maps top-level names to contents;
\* with nested, the directory also holds notes.txt and sub/<name>.
InputFiles(dir, top, nested, name, content) ==
  LET topFiles == [p \in {Join(dir, <<n>>) : n \in DOMAIN top} |-> top[Basename(p)]]
  IN IF nested
     THEN topFiles @@ (Join(dir, <<"notes.txt">>) :> content)
                   @@ (Join(dir, <<"sub", name>>) :> content)
     ELSE topFiles

Assignments(names, contents) == UNION {[S -> contents] : S \in SUBSET names}

\* The state after checkout, before any script has run: contact files g
\* and metadata files h, each directory present or not, with or without
\* nested entries, and the scripts started in working directory w.
World(g, h, cdir, mdir, nested, w) ==
  /\ files = InputFiles(ContactsDir, g, nested, "c.json", "other")
             @@ InputFiles(MetadataDir, h, nested, "n.json", "at0")
  /\ dirs = Ancestors(Dirname)
            \cup (IF cdir THEN Ancestors(ContactsDir) ELSE {})
            \cup (IF mdir THEN Ancestors(MetadataDir) ELSE {})
            \cup (IF nested THEN {Join(ContactsDir, <<"sub">>), Join(MetadataDir, <<"sub">>)}
                  ELSE {})
  /\ cwd = w
  /\ now = 0
  /\ logs = <<>>
  /\ cache = NoCache
  /\ proc = Idle
  /\ last = [v \in Validators |-> NoRun]
  /\ wrote = [v \in Validators |-> FALSE]
  /\ report = NoReport

\* A missing directory holds nothing; nested entries come with at most one
\* top-level contact file.
WellFormed(g, h, cdir, mdir, nested) ==
  /\ cdir \/ (DOMAIN g = {} /\ ~nested)
  /\ mdir \/ (DOMAIN h = {} /\ ~nested)
  /\ nested => Cardinality(DOMAIN g) <= 1

\* The validators' worlds.  The contact validators never read a metadata file
\* and the metadata validator reads no contact file (it only looks whether
\* one exists), so a world varies the contents of the contact files or has
\* metadata files, not both.
Init ==
  \E g \in Assignments(TopContacts, ContactContents),
     h \in Assignments(TopMetadata, MetadataContents),
     cdir \in BOOLEAN, mdir \in BOOLEAN, nested \in BOOLEAN,
     w \in {RepoRoot, Dirname} :
    /\ WellFormed(g, h, cdir, mdir, nested)
    /\ (\A n \in DOMAIN g : g[n] = "valid") \/ DOMAIN h = {}
    /\ World(g, h, cdir, mdir, nested, w)

\* The worlds of one record: the contact file a.json and the metadata file
\* m.json, one of them drawn from the records, the scripts started at the
\* repository root; or the valid contact a.json with one more file of each
\* kind under the name that holds the success phrase; or two valid contacts
\* with different addresses.
RecordsInit ==
  \/ \E c \in ContactRecords, m \in MetadataRecords :
       /\ c = "valid" \/ m = "at0"
       /\ World([n \in {"a.json"} |-> c], [n \in {"m.json"} |-> m], TRUE, TRUE, FALSE, RepoRoot)
  \/ \E c \in {"valid", "invalid"}, m \in {"at0", "invalidMetadata"} :
       World([n \in {"a.json", PhraseName} |-> IF n = "a.json" THEN "valid" ELSE c],
             [n \in {PhraseName} |-> m], TRUE, TRUE, FALSE, RepoRoot)
  \/ \E c \in {"underscoreEmail", "other"} :
       World([n \in {"a.json", "b.json"} |-> IF n = "a.json" THEN "dotEmail" ELSE c],
             [n \in {"m.json"} |-> "at0"], TRUE, TRUE, FALSE, RepoRoot)

\* The layout of the test harness: process.chdir(__dirname), then
\* createTestData() writes the contact file and the metadata file under the
\* working directory, the scripts directory.
HarnessWorld(c, m) ==
  /\ files = (Join(Dirname, ContactsRel \o <<"a.json">>) :> c)
             @@ (Join(Dirname, MetadataRel \o <<"m.json">>) :> m)
  /\ dirs = Ancestors(Join(Dirname, ContactsRel)) \cup Ancestors(Join(Dirname, MetadataRel))
  /\ cwd = Dirname
  /\ now = 0
  /\ logs = <<>>
  /\ cache = NoCache
  /\ proc = Idle
  /\ last = [v \in Validators |-> NoRun]
  /\ wrote = [v \in Validators |-> FALSE]
  /\ report = NoReport

\* The pipeline's worlds: at most one contact file and one metadata file
\* under the repository root, or the harness layout with valid data only.
PipelineInit ==
  \/ \E g \in Assignments({"a.json"}, {"valid", "invalid"}),
        h \in Assignments({"m.json"}, {"at0", "invalidMetadata"}),
        cdir \in BOOLEAN, mdir \in BOOLEAN, nested \in BOOLEAN,
        w \in {RepoRoot, Dirname} :
       /\ WellFormed(g, h, cdir, mdir, nested)
       /\ World(g, h, cdir, mdir, nested, w)
  \/ \E m \in {"at0", "harnessValid"} : HarnessWorld("valid", m)

\* ------------------------------------------------------------ the validators
\* A writeFileSync that resolves the name against the contact directory.
writeFileSyncInContacts(L, name, content) ==
  LET path == Join(ContactsDir, <<name>>)
  IN [p \in DOMAIN L \cup {path} |-> IF p = path THEN content ELSE L[p]]

\* fs.writeFileSync(name, content) in the working directory.
writeFileSync(L, name, content) ==
  LET path == Join(cwd, <<name>>)
  IN [p \in DOMAIN L \cup {path} |-> IF p = path THEN content ELSE L[p]]

\* validateFile(file) of validator v when the clock reads t: the verdict, the
\* cache it leaves, whether the duplicate violation and the future violation
\* were raised, and the violations validateBusinessRules or validateMetadata
\* returned (validateCDMCompliance returns none).
ValidateFile(v, file, t) ==
  LET data == ParseFile(files[file])
  IN CASE v = "cdmSchema" ->
            [valid |-> SchemaValidateFile(data), cache |-> cache, duplicate |-> FALSE,
             future |-> FALSE, violations |-> <<>>]
       [] v = "businessRules" ->
            LET r == BusinessValidateFile(data, file, cache)
            IN [valid |-> r.valid, cache |-> r.cache, duplicate |-> r.duplicate,
                future |-> FALSE,
                violations |-> IF data.json = "malformed" THEN <<>>
                               ELSE validateBusinessRules(data, file, cache).violations]
       [] v = "metadata" ->
            [valid |-> MetadataValidateFile(data, dirs, files, t), cache |-> cache,
             duplicate |-> FALSE,
             future |-> data.json = "ok"
                        /\ \E i \in 1..Len(MetadataViolations(data, dirs, files, t)) :
                             MetadataViolations(data, dirs, files, t)[i] = FutureViolation,
             violations |-> IF data.json = "malformed" THEN <<>>
                            ELSE validateMetadata(data, dirs, files, t).violations]

\* The outcome of a finished run, kept for the properties.
Outcome(exit, p, final) ==
  [ran |-> TRUE, exit |-> exit, total |-> Len(p.dataFiles), valid |-> p.validCount,
   invalid |-> Len(p.dataFiles) - p.validCount, final |-> final,
   discovered |-> p.dataFiles, processed |-> p.processed, verdicts |-> p.verdicts,
   duplicates |-> p.duplicates, futures |-> p.futures, findings |-> p.findings]

\* A main() without the no-files path: an empty file list enters the loop.
StartWithoutEmptyPath(v) ==
  /\ proc = Idle
  /\ cache' = IF v = "businessRules" THEN cleanup(cache) ELSE cache
  /\ proc' = [script |-> v, dataFiles |-> findDataFiles(dirs, files, InputDir(v)),
              i |-> 1, validCount |-> 0, allValid |-> TRUE, errorLines |-> <<>>,
              processed |-> <<>>, verdicts |-> <<>>, duplicates |-> <<>>,
              futures |-> <<>>, findings |-> <<>>]
  /\ UNCHANGED <<dirs, files, cwd, now, report, logs, wrote, last>>

\* main() up to the loop: cleanup (business rules only), file discovery, and
\* the whole of the no-files path: write the log, exit 0.
Start(v) ==
  /\ proc = Idle
  /\ LET dataFiles == findDataFiles(dirs, files, InputDir(v))
         p == [script |-> v, dataFiles |-> dataFiles, i |-> 1, validCount |-> 0,
               allValid |-> TRUE, errorLines |-> <<>>, processed |-> <<>>,
               verdicts |-> <<>>, duplicates |-> <<>>, futures |-> <<>>,
               findings |-> <<>>]
     IN /\ cache' = IF v = "businessRules" THEN cleanup(cache) ELSE cache
        /\ IF Len(dataFiles) = 0
           THEN /\ logs' = writeFileSync(logs, LogName(v), NoFilesLog(v))
                /\ wrote' = [wrote EXCEPT ![v] = TRUE]
                /\ last' = [last EXCEPT ![v] = Outcome(0, p, NoFilesText(v))]
                /\ proc' = Idle
           ELSE /\ proc' = p
                /\ UNCHANGED <<logs, wrote, last>>
  /\ UNCHANGED <<dirs, files, cwd, now, report>>

\* The clock readings new Date() can return: time does not run backwards.
ClockReadings(v) == IF v = "metadata" THEN now..MaxClock ELSE {now}

\* A loop that stops at the first invalid file.
ValidateAborting(v) ==
  /\ proc.script = v
  /\ proc.i <= Len(proc.dataFiles)
  /\ \E t \in ClockReadings(v) :
       LET file == proc.dataFiles[proc.i]
           r == ValidateFile(v, file, t)
       IN /\ proc' = [proc EXCEPT
                        !.i = IF r.valid THEN @ + 1 ELSE Len(proc.dataFiles) + 1,
                        !.validCount = IF r.valid THEN @ + 1 ELSE @,
                        !.allValid = IF r.valid THEN @ ELSE FALSE,
                        !.errorLines = IF r.valid THEN @ ELSE Append(@, DetailLine(v, file)),
                        !.processed = Append(@, file),
                        !.verdicts = Append(@, r.valid),
                        !.duplicates = Append(@, r.duplicate),
                        !.futures = Append(@, r.future),
                        !.findings = Append(@, r.violations)]
          /\ cache' = r.cache
          /\ now' = t
  /\ UNCHANGED <<dirs, files, cwd, logs, last, wrote, report>>

\* One iteration of the loop of main(): validateFile on the next file.  The
\* metadata validator reads the clock in it.
Validate(v) ==
  /\ proc.script = v
  /\ proc.i <= Len(proc.dataFiles)
  /\ \E t \in ClockReadings(v) :
       LET file == proc.dataFiles[proc.i]
           r == ValidateFile(v, file, t)
       IN /\ proc' = [proc EXCEPT
                        !.i = @ + 1,
                        !.validCount = IF r.valid THEN @ + 1 ELSE @,
                        !.allValid = IF r.valid THEN @ ELSE FALSE,
                        !.errorLines = IF r.valid THEN @ ELSE Append(@, DetailLine(v, file)),
                        !.processed = Append(@, file),
                        !.verdicts = Append(@, r.valid),
                        !.duplicates = Append(@, r.duplicate),
                        !.futures = Append(@, r.future),
                        !.findings = Append(@, r.violations)]
          /\ cache' = r.cache
          /\ now' = t
  /\ UNCHANGED <<dirs, files, cwd, logs, last, wrote, report>>

\* An end of main() that leaves the cache directory in place.
FinishWithoutCleanup(v) ==
  /\ proc.script = v
  /\ proc.i > Len(proc.dataFiles)
  /\ logs' = writeFileSync(logs, LogName(v),
                           ResultLog(v, Len(proc.dataFiles), proc.validCount,
                                     proc.errorLines, proc.allValid))
  /\ wrote' = [wrote EXCEPT ![v] = TRUE]
  /\ last' = [last EXCEPT ![v] = Outcome(ExitCode(proc.allValid), proc,
                                         IF proc.allValid THEN PassedText ELSE FailedText)]
  /\ proc' = Idle
  /\ UNCHANGED <<dirs, files, cwd, now, report, cache>>

\* main() after the loop: write the log, cleanup (business rules only), exit.
Finish(v) ==
  /\ proc.script = v
  /\ proc.i > Len(proc.dataFiles)
  /\ logs' = writeFileSync(logs, LogName(v),
                           ResultLog(v, Len(proc.dataFiles), proc.validCount,
                                     proc.errorLines, proc.allValid))
  /\ wrote' = [wrote EXCEPT ![v] = TRUE]
  /\ cache' = IF v = "businessRules" THEN cleanup(cache) ELSE cache
  /\ last' = [last EXCEPT ![v] = Outcome(ExitCode(proc.allValid), proc,
                                         IF proc.allValid THEN PassedText ELSE FailedText)]
  /\ proc' = Idle
  /\ UNCHANGED <<dirs, files, cwd, now, report>>

\* ------------------------------------------------------- the report generator
\* main() of the report generator: generateReport() reads the logs at the
\* repository root, writes the two report files in the working directory, and
\* main() sets the exit code.
GenerateReport ==
  /\ proc = Idle
  /\ LET vr == ValidationResults(dirs, files, logs)
     IN report' = [exists |-> TRUE,
                   inputs |-> [v \in Validators |->
                                 IF Join(RepoRoot, <<LogName(v)>>) \in DOMAIN logs
                                 THEN logs[Join(RepoRoot, <<LogName(v)>>)] ELSE <<>>],
                   validationResults |-> vr,
                   markdown |-> IF MarkdownAllPassed(vr) THEN "PASSED" ELSE "FAILED",
                   written |-> {Join(cwd, <<"validation-report.json">>),
                                Join(cwd, <<"validation-report.md">>)},
                   exit |-> ExitCode(MainAllPassed(vr))]
  /\ UNCHANGED <<dirs, files, cwd, now, logs, cache, proc, last, wrote>>

\* The pipeline is started again (the next pull-request run): nothing on
\* disk is removed.
NewExecution ==
  /\ proc = Idle
  /\ report # NoReport \/ \E v \in Validators : wrote[v]
  /\ wrote' = [v \in Validators |-> FALSE]
  /\ report' = NoReport
  /\ UNCHANGED <<dirs, files, cwd, now, logs, cache, proc, last>>

\* The validators, run any number of times in any order.
Next ==
  \/ \E v \in Validators : Start(v)
  \/ \E v \in Validators : Validate(v)
  \/ \E v \in Validators : Finish(v)

Spec == Init /\ [][Next]_vars

\* The pipeline: the validators, the report generator, and new executions.
PipelineNext ==
  \/ Next
  \/ GenerateReport
  \/ NewExecution

SpecPipeline == PipelineInit /\ [][PipelineNext]_vars

\* The validators applied to one record at a time.
SpecRecords == RecordsInit /\ [][Next]_vars

\* --------------------------------------------------------------- properties

\* C1: the report generator's overall status is PASSED, in the markdown and
\* in the exit code (0), if and only if the status of each of cdmSchema,
\* businessRules and metadata is passed; a failed or unknown status gives
\* FAILED and a non-zero exit code; the two verdicts never disagree.
C1_OverallStatus ==
  report.exists =>
    LET allThree == \A v \in {"cdmSchema", "businessRules", "metadata"} :
                      report.validationResults[v].status = "passed"
    IN /\ (report.markdown = "PASSED") <=> allThree
       /\ (report.exit = 0) <=> allThree
       /\ ~allThree => (report.markdown = "FAILED" /\ report.exit # 0)
       /\ (report.markdown = "PASSED") <=> (report.exit = 0)

\* A report over three passed validators.
C1_Witness ==
  /\ report.exists
  /\ \A v \in Validators : report.validationResults[v].status = "passed"
  /\ report.markdown = "PASSED"
  /\ report.exit = 0

\* The .json files at any depth under dir.
JsonUnder(dir) ==
  {f \in DOMAIN files : Len(f) > Len(dir) /\ IsPrefix(dir, f) /\ EndsWithJson(Basename(f))}

\* The input directory of v, under the repository root.
InputPath(v) == Join(RepoRoot, InputDir(v))

\* The elements of a sequence.
SeqSet(s) == {s[i] : i \in 1..Len(s)}

\* The log v wrote last.
LogOf(v) == logs[Join(cwd, <<LogName(v)>>)]

\* C2: a validator that wrote no log in the current execution is never
\* given the status passed by the report of that execution: its status is
\* unknown and the report fails, whatever an earlier execution left on disk.
C2_MissingLogIsUnknown ==
  report.exists =>
    \A v \in Validators :
      ~wrote[v] => /\ report.validationResults[v].status # "passed"
                   /\ report.validationResults[v].status = "unknown"
                   /\ report.exit # 0

\* C3: with no .json file under the contact and metadata directories, when
\* the report generator read the three logs the validators wrote for that
\* empty input, it exits 0.
C3_EmptyInputReportPasses ==
  (/\ report.exists
   /\ \A v \in Validators : JsonUnder(InputPath(v)) = {}
   /\ \A v \in Validators : wrote[v] /\ last[v].exit = 0 /\ report.inputs[v] = NoFilesLog(v))
    => report.exit = 0

\* C4: a run of a validator over a non-empty discovered file set exits 1 if
\* and only if some file was judged invalid and exits 0 otherwise, and on both
\* paths its log is on disk, with the total and the matching final status.
C4_ExitIffInvalid ==
  \A v \in Validators :
    (last[v].ran /\ last[v].total > 0) =>
      LET o == last[v]
          someInvalid == \E i \in 1..Len(o.verdicts) : ~o.verdicts[i]
          path == Join(cwd, <<LogName(v)>>)
      IN /\ o.exit = (IF someInvalid THEN 1 ELSE 0)
         /\ path \in DOMAIN logs
         /\ logs[path][3] = [text |-> "Total files: ", n |-> o.total, path |-> <<>>]
         /\ logs[path][Len(logs[path])].text =
              (IF someInvalid THEN "validation failed!" ELSE "All validation checks passed!")

\* A run over two files, one of them invalid, that exited 1.
C4_Witness ==
  \E v \in Validators :
    /\ last[v].ran
    /\ last[v].total = 2
    /\ last[v].valid = 1
    /\ last[v].exit = 1
    /\ Join(cwd, <<LogName(v)>>) \in DOMAIN logs

\* C5: when the input directory of a validator does not exist or holds no
\* .json file, a run of it validates nothing, writes a log that says no files
\* were found, and exits 0.
C5_NoFilesFound ==
  \A v \in Validators :
    (InputPath(v) \notin dirs \/ JsonUnder(InputPath(v)) = {}) =>
      /\ proc.script # v
      /\ last[v].ran =>
           /\ last[v].exit = 0
           /\ last[v].total = 0
           /\ last[v].processed = <<>>
           /\ Join(cwd, <<LogName(v)>>) \in DOMAIN logs
           /\ Len(LogOf(v)) = 1
           /\ LogOf(v)[1].text = (IF v = "metadata" THEN "No metadata files found to validate"
                                  ELSE "No contact data files found to validate")

\* One validator has run on a missing directory and another on an empty one.
C5_Witness ==
  \E v, u \in Validators :
    /\ InputPath(v) \notin dirs
    /\ last[v].ran
    /\ InputPath(u) \in dirs
    /\ JsonUnder(InputPath(u)) = {}
    /\ last[u].ran

\* C6: file discovery returns exactly the .json files at any depth under the
\* input directory, and the empty list for a directory that does not exist.
C6_DiscoveryAtAnyDepth ==
  \A v \in Validators :
    /\ proc.script = v => SeqSet(proc.dataFiles) = JsonUnder(InputPath(v))
    /\ last[v].ran =>
         /\ SeqSet(last[v].discovered) = JsonUnder(InputPath(v))
         /\ InputPath(v) \notin dirs => last[v].discovered = <<>>

\* Processing the file throws: malformed JSON, or a TypeError in a rule.
Throws(v, file) ==
  \/ ParseFile(files[file]).json = "malformed"
  \/ v = "businessRules" /\ RuleThrows(ParseFile(files[file]))

\* C7: a file whose processing throws is counted invalid and the batch
\* continues: every discovered file is validated exactly once, in discovery
\* order, and the logged counts cover all the discovered files.
C7_BatchContinues ==
  \A v \in Validators :
    /\ proc.script = v =>
         /\ proc.processed = SubSeq(proc.dataFiles, 1, proc.i - 1)
         /\ Len(proc.verdicts) = proc.i - 1
    /\ (last[v].ran /\ last[v].total > 0) =>
         LET o == last[v]
             judged == 1..Len(o.verdicts)
         IN /\ o.processed = o.discovered
            /\ Cardinality(SeqSet(o.discovered)) = Len(o.discovered)
            /\ Len(o.verdicts) = Len(o.discovered)
            /\ \A i \in 1..Len(o.processed) : Throws(v, o.processed[i]) => ~o.verdicts[i]
            /\ LogOf(v)[3] = [text |-> "Total files: ", n |-> Len(o.discovered), path |-> <<>>]
            /\ LogOf(v)[4].n = Cardinality({i \in judged : o.verdicts[i]})
            /\ LogOf(v)[5].n = Cardinality({i \in judged : ~o.verdicts[i]})

\* A business-rules run whose first file is malformed JSON and whose second
\* file was validated and found valid.
C7_Witness ==
  LET o == last["businessRules"]
  IN /\ o.ran
     /\ o.total = 2
     /\ files[o.discovered[1]] = "malformed"
     /\ o.processed = o.discovered
     /\ o.verdicts = <<FALSE, TRUE>>

\* The contact the i-th file of a run holds.
ContactAt(o, i) == ParseFile(files[o.processed[i]])

\* The files i and j of a run carry the same normalized email address.
SameEmail(o, i, j) ==
  LET a == ContactAt(o, i).emailAddress
      b == ContactAt(o, j).emailAddress
  IN /\ Truthy(a) /\ IsString(a)
     /\ Truthy(b) /\ IsString(b)
     /\ ReplaceNonAlnum(a.s) = ReplaceNonAlnum(b.s)

\* C8: in a business-rules run over parseable files, a file receives the
\* duplicate-email violation if and only if a file processed earlier in the
\* same run carried the same normalized email address.
C8_DuplicateIffEarlierSameEmail ==
  LET o == last["businessRules"]
  IN (o.ran /\ \A i \in 1..Len(o.processed) : ContactAt(o, i).json = "ok") =>
       \A i \in 1..Len(o.processed) :
         o.duplicates[i] <=> \E j \in 1..(i - 1) : SameEmail(o, i, j)

\* Every duplicate violation of a run points at an earlier file of that run.
DuplicatesFromThisRun(o) ==
  \A i \in 1..Len(o.duplicates) :
    o.duplicates[i] => \E j \in 1..(i - 1) : SameEmail(o, i, j)

\* C9: after a business-rules run has ended, by any exit path, the cache
\* directory does not exist, and the duplicate check of a run never sees a
\* marker that an earlier run created.
C9_CacheNeverLeaks ==
  /\ proc.script # "businessRules" => (~cache.dir /\ cache.flags = {})
  /\ proc.script = "businessRules" =>
       /\ \A f \in cache.flags : f.content \in SeqSet(proc.processed)
       /\ DuplicatesFromThisRun(proc)
  /\ last["businessRules"].ran => DuplicatesFromThisRun(last["businessRules"])

\* A business-rules run that flagged a duplicate has exited 1 and the cache
\* directory is gone.
C9_Witness ==
  /\ proc = Idle
  /\ last["businessRules"].ran
  /\ last["businessRules"].exit = 1
  /\ \E i \in 1..Len(last["businessRules"].duplicates) : last["businessRules"].duplicates[i]
  /\ ~cache.dir

\* The counts, the final status phrase and the exit code of two runs agree.
SameResult(a, b) ==
  /\ a.total = b.total
  /\ a.valid = b.valid
  /\ a.invalid = b.invalid
  /\ a.final = b.final
  /\ a.exit = b.exit

\* The lines of a log that carry the counts and the final status.
LogDigest(log) ==
  IF Len(log) < 5 THEN log ELSE <<log[3], log[4], log[5], log[Len(log)]>>

\* The run of v that ends in this step repeats the result of the run before.
RepeatsResult(v) ==
  /\ SameResult(last[v], last'[v])
  /\ LogDigest(LogOf(v)) = LogDigest(LogOf(v)')

\* C10 as stated: a second run of a validator on the unchanged files, only
\* the clock advancing, gives the same counts, final status and exit code.
C10_Idempotent ==
  [][\A v \in Validators : (last[v].ran /\ last'[v].ran) => RepeatsResult(v)]_vars

\* C10: a second run of a validator on the unchanged files gives the same
\* counts, final status and exit code, provided every metadata file's
\* processedAt is in the future at both runs or at neither.
C10_IdempotentSameFutures ==
  [][\A v \in Validators :
       (last[v].ran /\ last'[v].ran /\ last[v].futures = last'[v].futures)
         => RepeatsResult(v)]_vars

\* A second metadata run, at a later clock reading, has judged the files its
\* first run judged, with the same future findings, and is about to end.
C10_Witness ==
  /\ last["metadata"].ran
  /\ last["metadata"].total > 0
  /\ proc.script = "metadata"
  /\ proc.i > Len(proc.dataFiles)
  /\ now > 0
  /\ proc.futures = last["metadata"].futures

\* The contact has the required fields, its present fields satisfy the
\* structural constraints, and its present fields satisfy the CDM rules.
WellFormedContact(data) ==
  /\ data.json = "ok"
  /\ SchemaErrors(data) \subseteq {"contactId"}
  /\ data.contactId.t = "undefined" \/ (IsString(data.contactId) /\ data.contactId.s # <<>>)
  /\ CDMViolations(data) = <<>>

\* C11: the schema validator judges valid every contact that has the required
\* fields and whose present fields satisfy the structural constraints and the
\* CDM rules, a contact without contactId included.
C11_WellFormedContactIsValid ==
  LET o == last["cdmSchema"]
  IN o.ran =>
       \A i \in 1..Len(o.processed) : WellFormedContact(ContactAt(o, i)) => o.verdicts[i]

\* The record has the shape of the harness's valid metadata: the required
\* fields present and well-formed, version, namespace and recordCount
\* well-formed, and no contactId.
HarnessShaped(metadata) ==
  /\ metadata.json = "ok"
  /\ IsString(metadata.submissionId) /\ MatchesSubmissionId(metadata.submissionId.s)
  /\ IsString(metadata.processedAt) /\ isValidISODate(metadata.processedAt.s)
  /\ IsString(metadata.gitBranch) /\ MatchesBranch(metadata.gitBranch.s)
  /\ Truthy(metadata.gitCommitMessage)
  /\ IsString(metadata.version) /\ MatchesVersion(metadata.version.s)
  /\ IsString(metadata.namespace) /\ MatchesNamespace(metadata.namespace.s)
  /\ IsCount(metadata.recordCount)
  /\ metadata.contactId.t = "undefined"

\* C12: a metadata run over records shaped like the harness's valid metadata,
\* none of them processed in the future, judges every one valid and exits 0.
C12_HarnessMetadataIsValid ==
  LET o == last["metadata"]
  IN (/\ o.ran
      /\ o.total > 0
      /\ \A i \in 1..Len(o.processed) :
           HarnessShaped(ParseFile(files[o.processed[i]])) /\ ~o.futures[i])
       => ((\A i \in 1..Len(o.verdicts) : o.verdicts[i]) /\ o.exit = 0)

\* The harness layout: the scripts run in the scripts directory and the data,
\* all of it valid, was created under that directory.
InHarnessLayout ==
  /\ cwd = Dirname
  /\ DOMAIN files # {}
  /\ \A f \in DOMAIN files :
       IsPrefix(Dirname, f) /\ files[f] \in {"valid", "at0", "harnessValid"}

\* C13: in the harness layout, after the three validators have run, the
\* report generator gives each of them the status passed and exits 0.
C13_HarnessReportPasses ==
  (/\ InHarnessLayout
   /\ report.exists
   /\ \A v \in Validators : wrote[v])
    => /\ \A v \in Validators : report.validationResults[v].status = "passed"
       /\ report.exit = 0

\* C14: the report's fileCount gives the number of .json files at any depth
\* under the contact directory, the number under the metadata directory, and
\* their sum.
C14_FileCountAtAnyDepth ==
  report.exists =>
    LET fileCount == report.validationResults["fileCount"]
    IN /\ fileCount.contacts = Cardinality(JsonUnder(ContactsDir))
       /\ fileCount.metadata = Cardinality(JsonUnder(MetadataDir))
       /\ fileCount.total = fileCount.contacts + fileCount.metadata

\* C15: every log a validator run writes ends with one of the two status
\* phrases: the success phrase when no file was invalid, the failure phrase
\* when some file was.
C15_LogEndsWithStatusPhrase ==
  \A v \in Validators :
    last[v].ran =>
      LET ending == LogOf(v)[Len(LogOf(v))].text
          someInvalid == \E i \in 1..Len(last[v].verdicts) : ~last[v].verdicts[i]
      IN /\ ending \in {"All validation checks passed!", "validation failed!"}
         /\ (ending = "validation failed!") <=> someInvalid

\* The violations validateMetadata can raise on account of processedAt.
ProcessedAtViolations ==
  {"Invalid processedAt timestamp", "processedAt timestamp cannot be in the future",
   "Error parsing processedAt timestamp", "processedAt timestamp is too old"}

\* The metadata validator has just judged its k-th file, at clock reading now.
JustJudged(k) == proc.script = "metadata" /\ proc.i = k + 1

StaticFaults(metadata) ==
  {f \in {"submissionId", "processedAt", "gitBranch", "gitCommitMessage"} : ~Truthy(metadata[f])}
  \cup (IF Truthy(metadata.submissionId) /\ ~MatchesSubmissionId(metadata.submissionId.s)
        THEN {"submissionId format"} ELSE {})
  \cup (IF Truthy(metadata.processedAt) /\ ~isValidISODate(metadata.processedAt.s)
        THEN {"processedAt format"} ELSE {})
  \cup (IF Truthy(metadata.gitBranch) /\ ~MatchesBranch(metadata.gitBranch.s)
        THEN {"gitBranch format"} ELSE {})
  \cup (IF Truthy(metadata.version) /\ ~MatchesVersion(metadata.version.s)
        THEN {"version format"} ELSE {})
  \cup (IF Truthy(metadata.namespace) /\ ~MatchesNamespace(metadata.namespace.s)
        THEN {"namespace format"} ELSE {})
  \cup (IF metadata.recordCount.t # "undefined" /\ ~IsCount(metadata.recordCount)
        THEN {"recordCount"} ELSE {})

\* C17: validateMetadata evaluates every check: each missing required field
\* and each malformed field gives its own violation (at least 4 for the
\* harness's invalid metadata), and a record is valid if and only if it has
\* no violation.
C17_AllChecksEvaluated ==
  LET o == last["metadata"]
  IN o.ran =>
       \A i \in 1..Len(o.processed) :
         LET metadata == ParseFile(files[o.processed[i]])
         IN metadata.json = "ok" =>
              /\ o.verdicts[i] <=> (o.findings[i] = <<>>)
              /\ Len(o.findings[i]) >= Cardinality(StaticFaults(metadata))
              /\ files[o.processed[i]] = "invalidMetadata" =>
                   (Len(o.findings[i]) >= 4 /\ ~o.verdicts[i])

\* A metadata run has judged the harness's invalid metadata and returned at
\* least four violations.
C17_Witness ==
  LET o == last["metadata"]
  IN /\ o.ran
     /\ o.total = 1
     /\ files[o.processed[1]] = "invalidMetadata"
     /\ Len(o.findings[1]) >= 4
     /\ o.verdicts = <<FALSE>>

\* C18: for every contact file that parses, the business-rules validator
\* evaluates all ten rules: rule 10 has registered the marker of the file's
\* email address (or found it), and the file is invalid if and only if a
\* rule produced a violation.
C18_AllRulesEvaluated ==
  proc.script = "businessRules" =>
    \A i \in 1..Len(proc.processed) :
      LET contact == ContactAt(proc, i)
      IN contact.json = "ok" =>
           /\ (Truthy(contact.emailAddress) /\ IsString(contact.emailAddress))
                => HasMarker(cache, ReplaceNonAlnum(contact.emailAddress.s))
           /\ ~proc.verdicts[i] <=> (proc.findings[i] # <<>>)

\* The contact's emailAddress is a string with an upper-case letter in it.
HasUpperCaseEmail(contact) ==
  /\ contact.json = "ok"
  /\ IsString(contact.emailAddress)
  /\ \E k \in 1..Len(contact.emailAddress.s) : contact.emailAddress.s[k] \in UpperChars

\* C19: the schema validator judges invalid every contact whose emailAddress
\* has an upper-case letter, whatever its other fields are.
C19_UpperCaseEmailIsInvalid ==
  LET o == last["cdmSchema"]
  IN o.ran =>
       \A i \in 1..Len(o.processed) : HasUpperCaseEmail(ContactAt(o, i)) => ~o.verdicts[i]

\* A schema run has judged invalid a contact whose only fault is the
\* upper-case letter in its address.
C19_Witness ==
  LET o == last["cdmSchema"]
  IN /\ o.ran
     /\ o.total = 1
     /\ files[o.processed[1]] = "upperEmail"
     /\ HasUpperCaseEmail(ContactAt(o, 1))
     /\ SchemaErrors(ContactAt(o, 1)) = {}
     /\ o.verdicts = <<FALSE>>

\* The paths the scripts have written, created or removed: the logs, the
\* report files and the cache directory (the markers lie inside it).
EffectPaths ==
  DOMAIN logs
  \cup (IF report.exists THEN report.written ELSE {})
  \cup (IF cache.dir THEN {Join(cwd, CacheRel)} ELSE {})

\* The path is an input file, holds one, or lies in an input directory.
TouchesInput(p) ==
  \/ \E f \in DOMAIN files : IsPrefix(p, f)
  \/ \E v \in Validators : IsPrefix(InputPath(v), p)

\* C20: no step of a validator or of the report generator creates, changes
\* or deletes a contact or metadata file: the input files and directories
\* stay as they are, and the logs, the report files and the cache directory
\* lie outside them.
C20_InputsUntouched ==
  [][/\ files' = files
     /\ dirs' = dirs
     /\ \A p \in EffectPaths' : ~TouchesInput(p)]_vars

\* With input files on disk, a log and the report have been written and the
\* business-rules validator has created its cache directory.
C20_Witness ==
  /\ DOMAIN files # {}
  /\ DOMAIN logs # {}
  /\ report.exists
  /\ cache.dir
  /\ cache.flags # {}

\* C21: the log of a run over a non-empty file set in which some file was
\* invalid is classified failed by parseValidationOutput, and the log of a
\* run in which every file was valid is classified passed, whatever the names
\* of the files.
C21_LogClassifiedByOutcome ==
  \A v \in Validators :
    (last[v].ran /\ last[v].total > 0 /\ Join(cwd, <<LogName(v)>>) \in DOMAIN logs) =>
      LET someInvalid == \E i \in 1..Len(last[v].verdicts) : ~last[v].verdicts[i]
      IN parseValidationOutput(LogOf(v)).status =
           (IF someInvalid THEN "failed" ELSE "passed")

\* C22: within one business-rules run, a file is given the duplicate-email
\* violation only if an earlier file of the run has an identical
\* emailAddress string.
C22_DuplicateOnlyForIdenticalEmail ==
  LET o == last["businessRules"]
  IN o.ran =>
       \A i \in 1..Len(o.processed) :
         o.duplicates[i] =>
           \E j \in 1..(i - 1) :
             /\ IsString(ContactAt(o, j).emailAddress)
             /\ ContactAt(o, j).emailAddress = ContactAt(o, i).emailAddress

\* The lines of a log that carry the given text.
LinesWith(log, text) == {i \in 1..Len(log) : log[i].text = text}

\* The number a log gives after the given label: -1 unless exactly one line
\* carries the label.
LogCount(log, text) ==
  IF Cardinality(LinesWith(log, text)) = 1
  THEN log[CHOOSE i \in LinesWith(log, text) : TRUE].n
  ELSE -1

\* C23: in the log a validator writes for a non-empty file set, Valid files
\* plus Invalid files is Total files, which is the number of discovered
\* files; there is one Details line per invalid file; and the Details section
\* is present if and only if Invalid files is positive.
C23_LogCountsConsistent ==
  \A v \in Validators :
    (last[v].ran /\ last[v].total > 0 /\ Join(cwd, <<LogName(v)>>) \in DOMAIN logs) =>
      LET log == LogOf(v)
          total == LogCount(log, "Total files: ")
          valid == LogCount(log, "Valid files: ")
          invalid == LogCount(log, "Invalid files: ")
      IN /\ valid >= 0 /\ invalid >= 0
         /\ valid + invalid = total
         /\ total = Len(findDataFiles(dirs, files, InputDir(v)))
         /\ Cardinality(LinesWith(log, DetailText(v))) = invalid
         /\ \A i \in LinesWith(log, DetailText(v)) :
              log[i].path \in SeqSet(last[v].discovered)
         /\ (LinesWith(log, "Details:") # {}) <=> (invalid > 0)

\* A validator has written the log of a run over two discovered files of
\* which one failed: the log has a Details section of one line.  Another
\* validator has written a log without a Details section.
C23_Witness ==
  \E v, u \in Validators :
    /\ last[v].ran /\ last[u].ran
    /\ Join(cwd, <<LogName(v)>>) \in DOMAIN logs
    /\ Join(cwd, <<LogName(u)>>) \in DOMAIN logs
    /\ LogCount(LogOf(v), "Total files: ") = 2
    /\ LogCount(LogOf(v), "Invalid files: ") = 1
    /\ Cardinality(LinesWith(LogOf(v), DetailText(v))) = 1
    /\ LinesWith(LogOf(v), "Details:") # {}
    /\ LogCount(LogOf(u), "Total files: ") > 0
    /\ LogCount(LogOf(u), "Invalid files: ") = 0
    /\ LinesWith(LogOf(u), "Details:") = {}

====
